---- MODULE Spec2Model ----
(***************************************************************************)
(* Order-flow footprint charts: the Bybit trade-to-candle aggregator       *)
(* (lib/bybitConnector.ts, the BTCUSD variant) and the page that owns the  *)
(* candle Sequence (app/page.tsx).                                         *)
(*                                                                         *)
(* Units.  Prices are integers counting 1/20 of a dollar, so that the tick *)
(* of 0.5 is 10 units and a quarter is 5 units.  Level volumes            *)
(* (bidVol/askVol) are integers counting halves, so a trade of 0.5 is 1    *)
(* and Math.round has something to round.  delta, volume and cvd are the   *)
(* integers the code stores after Math.round.  Times are epoch             *)
(* milliseconds; a candle's timestamp is kept as that integer: the ISO     *)
(* string the code stores round-trips exactly through new Date(...) at     *)
(* millisecond precision, and is only ever compared for equality or        *)
(* parsed back with getTime().                                             *)
(***************************************************************************)
EXTENDS Integers, Sequences, FiniteSets, TLC

VARIABLES
    now,              \* Date.now()
    pgTimeframe,      \* Home: timeframe state
    isLiveData,       \* Home: isLiveData state
    data,             \* Home: data state, the candle Sequence
    isLoading,        \* Home: isLoading state
    connectionStatus, \* Home: connectionStatus state
    mounted,          \* Home is mounted
    current,          \* bybitConnector.current (0 = null, e = the connector of run e)
    epoch,            \* number of runs of the load effect so far
    loads,            \* loadData calls awaiting fetchHistoricalData
    ws,               \* connector -> this.ws (0 = null)
    onCandleUpdate,   \* connector -> this.onCandleUpdate is set
    currentCandle,    \* connector -> this.currentCandle
    connTimeframe,    \* connector -> this.timeframe
    candleStartTime,  \* connector -> this.candleStartTime
    disconnected,     \* connectors on which disconnect() has been called
    nSock,            \* WebSocket objects constructed so far
    sock,             \* socket -> [conn, tf, st]
    emitted,          \* candles handed to onCandleUpdate by the last handler
    tradesLeft,       \* trade messages the exchange may still deliver
    dropsLeft,        \* transport failures that may still happen
    chartData,        \* FootprintChartSimple: chartInstanceRef.current.data
    view,             \* the host chart: visible range and coordinate functions
    overlay,          \* the overlay canvas and the last visible-range report
    stats,            \* FootprintBarStatistics: the props and rows of its last render
    share             \* which candles of data and chartData hold the object or the
                      \* level array of a connector's open candle

vars == <<now, pgTimeframe, isLiveData, data, isLoading, connectionStatus,
          mounted, current, epoch, loads, ws, onCandleUpdate,
          currentCandle, connTimeframe, candleStartTime, disconnected,
          nSock, sock, emitted, tradesLeft, dropsLeft,
          chartData, view, overlay, stats, share>>

\* the chart and statistics components' part of the state
chartVars == <<chartData, view, overlay, stats>>

----------------------------------------------------------------------------
(* Bounds of the model *)

\* runs of the load effect, the one at mount included; the connector
\* constructed by run e is connector e
MaxEffects == 2
\* WebSocket objects
MaxSock == 3
\* steps of the wall clock
MaxSteps == 2
\* trade messages delivered in one behaviour of the aggregator
MaxTrades == 2
\* trade messages delivered in one behaviour of the whole page
PageTrades == 1
\* transport failures (socket drops) in one behaviour
MaxDrops == 1
\* stands for the 100 bars asked of the exchange and generated by the mock
HistLimit == 2
\* stands for the 200 candles the page retains
MaxCandles == 3

----------------------------------------------------------------------------
(* Numbers *)

Max(a, b) == IF a >= b THEN a ELSE b
Min(a, b) == IF a <= b THEN a ELSE b

\* Math.round on a value given in halves: floor(h/2 + 1/2)
MathRound(h) == (h + 1) \div 2

\* Math.round(n/d) for d > 0: floor(n/d + 1/2)
RoundRatio(n, d) == (2 * n + d) \div (2 * d)

\* Math.ceil(n/d) for n >= 0, d > 0
CeilDiv(n, d) == (n + d - 1) \div d

\* Math.round(price * 2) / 2: the nearest multiple of 0.5, ties upward
RoundToTick(p) == 10 * ((p + 5) \div 10)

\* Number(x.toFixed(1)) on a multiple of 0.25: the nearest multiple of 0.1,
\* the exact ties x.25 and x.75 going to the larger one
ToFixed1(p) == IF p % 2 = 0 THEN p ELSE p + 1

FiveMin == 300000

Timeframes == {"5m", "15m"}

getTimeframeMs(tf) ==
    CASE tf = "1m"  -> 1 * 60 * 1000
      [] tf = "5m"  -> 5 * 60 * 1000
      [] tf = "15m" -> 15 * 60 * 1000
      [] tf = "30m" -> 30 * 60 * 1000
      [] tf = "1h"  -> 60 * 60 * 1000
      [] tf = "4h"  -> 4 * 60 * 60 * 1000
      [] tf = "12h" -> 12 * 60 * 60 * 1000
      [] tf = "1d"  -> 24 * 60 * 60 * 1000

\* Math.floor(t / timeframeMs) * timeframeMs
BucketStart(t, tf) == (t \div getTimeframeMs(tf)) * getTimeframeMs(tf)

----------------------------------------------------------------------------
(* Candles (lib/types.ts).  src is not a field of the code's object: it    *)
(* records which constructor made the object ("hist" the backfill, "live"  *)
(* the aggregator, "mock" the generator) and is never read by an action.   *)

Level(price, bidVol, askVol) ==
    [price |-> price, bidVol |-> bidVol, askVol |-> askVol]

Candle(ts, o, h, l, c, levels, delta, volume, cvd, src) ==
    [timestamp |-> ts, open |-> o, high |-> h, low |-> l, close |-> c,
     bidAskData |-> levels, delta |-> delta, volume |-> volume, cvd |-> cvd,
     src |-> src]

\* this.currentCandle = null, and the undefined lastCandle
Null == Candle(-1, 0, 0, 0, 0, <<>>, 0, 0, 0, "null")

RECURSIVE SumSeq(_, _)
\* levels.reduce((sum, level) => sum + f(level), 0), here with
\* f(level) = bidVol + sign * askVol
SumSeq(levels, sign) ==
    IF levels = <<>> THEN 0
    ELSE levels[1].bidVol + sign * levels[1].askVol + SumSeq(Tail(levels), sign)

\* Σ (bidVol - askVol) over the levels, in halves
SumDelta(levels) == SumSeq(levels, -1)

\* Σ (bidVol + askVol) over the levels, in halves
SumVolume(levels) == SumSeq(levels, 1)

----------------------------------------------------------------------------
(* HistoricalBackfill: BybitConnector.generateApproximateBidAsk and the    *)
(* loop of fetchHistoricalData.  A kline is [start, open, high, low,       *)
(* close, volume] with volume in halves; rf is the sequence of the         *)
(* Math.random() draws of one bar, as randomFactor * 10 (8 .. 12).         *)

priceStep == 10

numLevels(high, low) == Max(CeilDiv(high - low, priceStep), 1)

\* the price of the i-th level (i from 0)
LevelPrice(low, i) == ToFixed1(low + i * priceStep)

\* the ratio weighted by pricePosition in place of 1 - pricePosition
bidRatio_rising(open, high, low, close, price) ==
    LET range == high - low
        base  == IF close > open THEN 4 ELSE 2
    IN  IF range > 0
        THEN <<base * range + 4 * (price - low), 10 * range>>
        ELSE <<base + 2, 10>>

\* bidRatio as a fraction <<numerator, denominator>>
bidRatio(open, high, low, close, price) ==
    LET range == high - low
        base  == IF close > open THEN 4 ELSE 2
    IN  IF range > 0
        THEN <<base * range + 4 * (range - (price - low)), 10 * range>>
        ELSE <<base + 2, 10>>

\* one level of the bar: Math.max(Math.round(volumePerLevel * ratio *
\* randomFactor), 1) on each side, stored in halves
ApproxLevel(open, high, low, close, volume, i, k) ==
    LET price == LevelPrice(low, i)
        br    == bidRatio(open, high, low, close, price)
        den   == 2 * numLevels(high, low) * br[2] * 10
        bid   == RoundRatio(volume * br[1] * k, den)
        ask   == RoundRatio(volume * (br[2] - br[1]) * k, den)
    IN  Level(price, 2 * Max(bid, 1), 2 * Max(ask, 1))

\* the loop without its break: every i of 0 .. numLevels pushes a level
LevelCount_noBreak(high, low) == numLevels(high, low) + 1

\* the number of levels the loop pushes before price > high breaks it
LevelCount(high, low) ==
    Cardinality({i \in 0..numLevels(high, low) : LevelPrice(low, i) <= high})

generateApproximateBidAsk(open, high, low, close, volume, rf) ==
    [j \in 1..LevelCount(high, low) |->
        ApproxLevel(open, high, low, close, volume, j - 1, rf[j])]

\* the candle pushed for one kline, cumulativeDelta (halves) being the
\* running sum after this bar
HistCandle(k, levels, cumulativeDelta) ==
    Candle(k.start, k.open, k.high, k.low, k.close, levels,
           MathRound(SumDelta(levels)), MathRound(SumVolume(levels)),
           MathRound(cumulativeDelta), "hist")

RECURSIVE HistLoop(_, _, _)
HistLoop(klines, rfs, cumulativeDelta) ==
    IF klines = <<>> THEN <<>>
    ELSE LET k      == klines[1]
             levels == generateApproximateBidAsk(k.open, k.high, k.low,
                                                 k.close, k.volume, rfs[1])
             cum    == cumulativeDelta + SumDelta(levels)
         IN  <<HistCandle(k, levels, cum)>>
                 \o HistLoop(Tail(klines), Tail(rfs), cum)

\* fetchHistoricalData on a successful response: klines oldest first
fetchHistoricalData(klines, rfs) == HistLoop(klines, rfs, 0)

----------------------------------------------------------------------------
(* MockDataGenerator.  A draw is the Math.random() outcome of one candle:  *)
(* [change, volatility, bid, ask], prices in units, volumes already        *)
(* rounded.  The volatility drawn here is far below the code's 200..500    *)
(* dollars so that a mock candle has two or three levels, not forty.       *)

basePrice == 2100000

mockPriceStep == 200

\* Math.round of a price to a whole dollar
RoundDollar(p) == 20 * ((p + 10) \div 20)

MockDraws ==
    { [change |-> 40, volatility |-> 100, bid |-> 3, ask |-> 1],
      [change |-> -40, volatility |-> 110, bid |-> 1, ask |-> 2] }

generateBidAskLevels(high, low, d) ==
    LET priceRange == CeilDiv(high - low, mockPriceStep)
        n == Cardinality({i \in 0..priceRange : low + i * mockPriceStep <= high})
    IN  [j \in 1..n |->
            Level(RoundDollar(low + (j - 1) * mockPriceStep), 2 * d.bid, 2 * d.ask)]

\* generateCandle, cvd left for the caller to set
generateCandle(ts, prevClose, d) ==
    LET open   == prevClose
        close  == open + d.change
        high   == Max(open, close) + d.volatility
        low    == Min(open, close) - d.volatility
        levels == generateBidAskLevels(high, low, d)
    IN  Candle(ts, RoundDollar(open), RoundDollar(high), RoundDollar(low),
               RoundDollar(close), levels, MathRound(SumDelta(levels)),
               MathRound(SumVolume(levels)), 0, "mock")

RECURSIVE MockLoop(_, _, _, _, _)
\* the loop of generateHistoricalData: i counts down to 0
MockLoop(t, intervalMs, draws, currentPrice, cumulativeDelta) ==
    IF draws = <<>> THEN <<>>
    ELSE LET i      == Len(draws) - 1
             candle == generateCandle(t - i * intervalMs, currentPrice, draws[1])
             cum    == cumulativeDelta + candle.delta
         IN  <<[candle EXCEPT !.cvd = cum]>>
                 \o MockLoop(t, intervalMs, Tail(draws), candle.close, cum)

\* generateHistoricalData(timeframe, barsCount) called at time t, barsCount
\* being the number of draws
generateHistoricalData(tf, t, draws) ==
    MockLoop(t, getTimeframeMs(tf), draws, basePrice, 0)

----------------------------------------------------------------------------
(* TradeAggregator: BybitConnector.processTrades and its helpers.  A trade *)
(* is [T, p, v, S]: timestamp, price in units, volume in halves, side.     *)

\* the update pushing a level for every trade
updateBidAskData_alwaysPush(levels, price, volume, side) ==
    Append(levels, IF side = "Buy" THEN Level(price, volume, 0)
                   ELSE Level(price, 0, volume))

\* updateBidAskData: find the level with this price or push a new one
updateBidAskData(levels, price, volume, side) ==
    LET found == {i \in 1..Len(levels) : levels[i].price = price}
        add(l) == IF side = "Buy"
                  THEN [l EXCEPT !.bidVol = @ + volume]
                  ELSE [l EXCEPT !.askVol = @ + volume]
    IN  IF found = {}
        THEN Append(levels, add(Level(price, 0, 0)))
        ELSE LET i == CHOOSE i \in found : \A j \in found : i <= j
             IN  [levels EXCEPT ![i] = add(@)]

\* recalculateMetrics keeping the stored volume instead of recomputing it
recalculateMetrics_keepVolume(c) ==
    LET delta       == SumDelta(c.bidAskData)
        previousCvd == c.cvd - c.delta
    IN  [c EXCEPT !.delta = MathRound(delta),
                  !.cvd = MathRound(2 * previousCvd + delta)]

\* recalculateMetrics
recalculateMetrics(c) ==
    LET delta       == SumDelta(c.bidAskData)
        volume      == SumVolume(c.bidAskData)
        previousCvd == c.cvd - c.delta
    IN  [c EXCEPT !.delta = MathRound(delta),
                  !.volume = MathRound(volume),
                  !.cvd = MathRound(2 * previousCvd + delta)]

\* the candle started at a rollover: cvd is this.currentCandle?.cvd || 0
StartCandle(cc, start, price) ==
    Candle(start, price, price, price, price, <<>>, 0, 0,
           IF cc = Null THEN 0 ELSE cc.cvd, "live")

\* "Update current candle with trade data"
ApplyTrade(cc, trade) ==
    recalculateMetrics(
        [cc EXCEPT !.high = Max(@, trade.p),
                   !.low = Min(@, trade.p),
                   !.close = trade.p,
                   !.bidAskData = updateBidAskData(@, RoundToTick(trade.p),
                                                   trade.v, trade.S)])

\* "Check if we need to start a new candle"
NeedsNewCandle(start, cst) == start > cst

\* the body of trades.forEach for one trade, on the connector state
\* st = [cc, cst, out]: currentCandle, candleStartTime and the candles
\* handed to onCandleUpdate so far
ProcessTrade(st, trade, tf) ==
    LET start == BucketStart(trade.T, tf)
        roll  == NeedsNewCandle(start, st.cst)
        out1  == IF roll /\ st.cc # Null THEN Append(st.out, st.cc) ELSE st.out
        cc1   == IF roll THEN StartCandle(st.cc, start, trade.p) ELSE st.cc
        cst1  == IF roll THEN start ELSE st.cst
    IN  IF cc1 = Null
        THEN [cc |-> cc1, cst |-> cst1, out |-> out1]
        ELSE LET cc2 == ApplyTrade(cc1, trade)
             IN  [cc |-> cc2, cst |-> cst1, out |-> Append(out1, cc2)]

RECURSIVE processTrades(_, _, _)
processTrades(st, trades, tf) ==
    IF trades = <<>> THEN st
    ELSE processTrades(ProcessTrade(st, trades[1], tf), Tail(trades), tf)

----------------------------------------------------------------------------
(* The page's candle Sequence: the callback given to subscribeRealtime     *)

RECURSIVE SortByTime(_)
\* Array.prototype.sort by new Date(timestamp).getTime(), which is stable
SortByTime(s) ==
    IF s = <<>> THEN <<>>
    ELSE LET rest == SortByTime(SubSeq(s, 1, Len(s) - 1))
             c    == s[Len(s)]
             k    == Cardinality({i \in 1..Len(rest) :
                                    rest[i].timestamp <= c.timestamp})
         IN  SubSeq(rest, 1, k) \o <<c>> \o SubSeq(rest, k + 1, Len(rest))

\* newData.findIndex(c => c.timestamp === updatedCandle.timestamp), 0 for -1
FindIndex(d, ts) ==
    LET found == {i \in 1..Len(d) : d[i].timestamp = ts}
    IN  IF found = {} THEN 0
        ELSE CHOOSE i \in found : \A j \in found : i <= j

\* push, then pop() instead of shift() when over the retained count
PushCandle_dropNewest(d, c) ==
    LET pushed == Append(d, c)
    IN  IF Len(pushed) > MaxCandles THEN SubSeq(pushed, 1, MaxCandles) ELSE pushed

\* newData.push(updatedCandle), then shift() when over the retained count
PushCandle(d, c) ==
    LET pushed == Append(d, c)
    IN  IF Len(pushed) > MaxCandles THEN Tail(pushed) ELSE pushed

\* the updater without its closing sort
OnUpdate_unsorted(d, c) ==
    LET existingIndex == FindIndex(d, c.timestamp)
    IN  IF existingIndex >= 1
        THEN [d EXCEPT ![existingIndex] = c]
        ELSE PushCandle(d, c)

\* the updater writing the updated candle over the first entry
OnUpdate_replaceFirst(d, c) ==
    LET existingIndex == FindIndex(d, c.timestamp)
    IN  SortByTime(IF existingIndex >= 1
                   THEN [d EXCEPT ![1] = c]
                   ELSE PushCandle(d, c))

\* the updater passed to setData for one updated candle
OnUpdate(d, c) ==
    LET existingIndex == FindIndex(d, c.timestamp)
    IN  SortByTime(IF existingIndex >= 1
                   THEN [d EXCEPT ![existingIndex] = c]
                   ELSE PushCandle(d, c))

RECURSIVE ApplyUpdates(_, _)
\* the queued updaters of one handler, applied in order
ApplyUpdates(d, out) ==
    IF out = <<>> THEN d
    ELSE ApplyUpdates(OnUpdate(d, out[1]), Tail(out))

----------------------------------------------------------------------------
(* Inputs *)

Conns == 1..MaxEffects
Socks == 1..MaxSock

\* the wall clock starts two 15m buckets after the epoch and moves in
\* steps, MaxSteps of them
StartTime == 2 * getTimeframeMs("15m")

\* trade timestamps are the exchange's: seen from a connector on timeframe
\* tf at local time t, a trade may be stamped in the previous bucket (late),
\* in the current one, or in the next one (the local clock runs behind the
\* exchange's across a bucket boundary)
TradeTimes(t, tf) == {t - getTimeframeMs(tf), t, t + getTimeframeMs(tf)}
TradePrices == {40, 45}
TradeVolumes == {1}
Sides == {"Buy", "Sell"}
TradeKinds == [p : TradePrices, v : TradeVolumes, S : Sides]
\* the two kinds of trade the page-level specification delivers
FewKinds ==
    { [p |-> 40, v |-> 1, S |-> "Buy"],
      [p |-> 45, v |-> 1, S |-> "Sell"] }
Trade(t, k) == [T |-> t, p |-> k.p, v |-> k.v, S |-> k.S]
Trades(t, tf, kinds) == {Trade(tt, k) : tt \in TradeTimes(t, tf), k \in kinds}

\* the bar the exchange answers with, volume in halves
Bar == [open |-> 40, high |-> 50, low |-> 40, close |-> 50, volume |-> 20]
RandomFactors == {8, 12}

\* the klines of a response served at exchange time t: n consecutive bars
\* of the timeframe, the newest being the bar in progress at t
Klines(tf, t, n) ==
    [j \in 1..n |->
        [start  |-> BucketStart(t, tf) - (n - j) * getTimeframeMs(tf),
         open   |-> Bar.open, high |-> Bar.high, low |-> Bar.low,
         close  |-> Bar.close, volume |-> Bar.volume]]

\* every result fetchHistoricalData returns in the model for a fetch started
\* at time at: the request asks for the bars up to endTime = Date.now(), so
\* the newest bar is the one in progress at that time; up to HistLimit bars
\* come back, and one random factor is drawn per response
HistResults(tf, at) ==
    { fetchHistoricalData(Klines(tf, at, n), [j \in 1..n |-> <<k, k>>]) :
        <<n, k>> \in (0..HistLimit) \X RandomFactors }

\* every result generateHistoricalData returns in the model at time t: one
\* draw per call
MockResults(tf, t) ==
    { generateHistoricalData(tf, t, [j \in 1..HistLimit |-> d]) : d \in MockDraws }

\* historicalData[historicalData.length - 1]
LastOf(h) == IF h = <<>> THEN Null ELSE h[Len(h)]

----------------------------------------------------------------------------
(* BybitConnector: subscribeRealtime, disconnect and the socket handlers   *)

FreeSock == [conn |-> 0, tf |-> "15m", st |-> "free"]

\* subscribeRealtime(timeframe, onUpdate, lastCandle) on connector c;
\* socks is the socket table before the new WebSocket is constructed
subscribeRealtime(c, tf, lastCandle, socks) ==
    /\ nSock < MaxSock
    /\ nSock' = nSock + 1
    /\ connTimeframe' = [connTimeframe EXCEPT ![c] = tf]
    /\ onCandleUpdate' = [onCandleUpdate EXCEPT ![c] = TRUE]
    /\ currentCandle' = [currentCandle EXCEPT ![c] = lastCandle]
    /\ candleStartTime' = [candleStartTime EXCEPT ![c] = BucketStart(now, tf)]
    /\ ws' = [ws EXCEPT ![c] = nSock + 1]
    /\ sock' = [socks EXCEPT ![nSock + 1] = [conn |-> c, tf |-> tf, st |-> "open"]]

\* this.ws.close(): an open socket starts closing, its onclose to follow
CloseSock(socks, s) ==
    IF s # 0 /\ socks[s].st = "open"
    THEN [socks EXCEPT ![s].st = "closing"]
    ELSE socks

\* disconnect() on connector c (c = 0: bybitConnector.current is null)
disconnect(c) ==
    /\ sock' = IF c = 0 THEN sock ELSE CloseSock(sock, ws[c])
    /\ ws' = IF c = 0 THEN ws ELSE [ws EXCEPT ![c] = 0]
    /\ disconnected' = IF c = 0 THEN disconnected ELSE disconnected \cup {c}

\* setData(updater) for every candle handed to the callback; React drops
\* state updates of an unmounted component
SetDataFrom(out) ==
    data' = IF mounted THEN ApplyUpdates(data, out) ELSE data

\* References.  historicalData[length - 1] handed to subscribeRealtime is the
\* very object the connector then updates ("object"), and the copy
\* { ...this.currentCandle } handed to the callback holds the connector's
\* bidAskData array, not a copy of it ("levels").  A share [ts, kind] of a
\* connector names the candle of a Sequence, by its timestamp, that is or
\* holds what the connector's open candle is or holds.
NoShare == [ts |-> 0 - 1, kind |-> "none"]

TimesOf(d) == {d[i].timestamp : i \in DOMAIN d}

\* the shares that still name a candle of d
Prune(sh, d) == [k \in Conns |-> IF sh[k].ts \in TimesOf(d) THEN sh[k] ELSE NoShare]

\* the Sequence d as seen after the connector with share sh has brought its
\* open candle to obj
Mutated(d, sh, obj) ==
    [i \in DOMAIN d |->
        IF sh.kind = "none" \/ obj = Null \/ d[i].timestamp # sh.ts THEN d[i]
        ELSE IF sh.kind = "object" THEN obj
        ELSE [d[i] EXCEPT !.bidAskData = obj.bidAskData]]

\* the trades of a message that precede its first rollover
BeforeRollover(trades, cst, tf) ==
    LET rolls == {i \in DOMAIN trades :
                    NeedsNewCandle(BucketStart(trades[i].T, tf), cst)}
    IN  IF rolls = {} THEN trades
        ELSE SubSeq(trades, 1, (CHOOSE i \in rolls : \A j \in rolls : i <= j) - 1)

\* ws.onmessage of socket s with one publicTrade message
OnMessage(s, trades) ==
    LET c   == sock[s].conn
        st0 == [cc |-> currentCandle[c], cst |-> candleStartTime[c], out |-> <<>>]
        st  == processTrades(st0, trades, connTimeframe[c])
        \* the candle object open before the message, as the message leaves it
        old == processTrades(st0, BeforeRollover(trades, candleStartTime[c],
                                                 connTimeframe[c]),
                             connTimeframe[c]).cc
        rolled == st.cst # candleStartTime[c]
    IN  /\ sock[s].st = "open"
        /\ tradesLeft > 0
        /\ tradesLeft' = tradesLeft - 1
        /\ currentCandle' = [currentCandle EXCEPT ![c] = st.cc]
        /\ candleStartTime' = [candleStartTime EXCEPT ![c] = st.cst]
        /\ emitted' = st.out
        /\ SetDataFrom(st.out)
        /\ chartData' = Mutated(chartData, share.chart[c], old)
        /\ share' =
              [chart |-> [share.chart EXCEPT ![c] = IF rolled THEN NoShare ELSE @],
               data  |->
                 IF mounted /\ st.out # <<>>
                 THEN Prune([k \in Conns |->
                               IF k = c
                               THEN [ts |-> st.cc.timestamp, kind |-> "levels"]
                               ELSE IF share.data[k].ts \in TimesOf(st.out)
                               THEN NoShare ELSE share.data[k]], data')
                 ELSE [share.data EXCEPT ![c] = IF rolled THEN NoShare ELSE @]]
        /\ UNCHANGED <<now, pgTimeframe, isLiveData, isLoading, connectionStatus,
                       mounted, current, epoch, loads, ws, onCandleUpdate,
                       connTimeframe, disconnected, nSock, sock, dropsLeft>>
        /\ UNCHANGED <<view, overlay, stats>>

\* the transport drops an open socket: its close event is now pending
SocketDrop(s) ==
    /\ sock[s].st = "open"
    /\ dropsLeft > 0
    /\ dropsLeft' = dropsLeft - 1
    /\ sock' = [sock EXCEPT ![s].st = "closing"]
    /\ emitted' = <<>>
    /\ UNCHANGED <<now, pgTimeframe, isLiveData, data, isLoading, connectionStatus,
                   mounted, current, epoch, loads, ws, onCandleUpdate,
                   currentCandle, connTimeframe, candleStartTime, disconnected,
                   nSock, tradesLeft>>
    /\ UNCHANGED <<chartVars, share>>

\* ws.onclose of socket s: setTimeout(reconnect, 5000)
OnClose(s) ==
    /\ sock[s].st = "closing"
    /\ sock' = [sock EXCEPT ![s].st = "timer"]
    /\ emitted' = <<>>
    /\ UNCHANGED <<now, pgTimeframe, isLiveData, data, isLoading, connectionStatus,
                   mounted, current, epoch, loads, ws, onCandleUpdate,
                   currentCandle, connTimeframe, candleStartTime, disconnected,
                   nSock, tradesLeft, dropsLeft>>
    /\ UNCHANGED <<chartVars, share>>

\* the reconnect timer of socket s fires
ReconnectTimer(s) ==
    LET c == sock[s].conn
    IN  /\ sock[s].st = "timer"
        /\ emitted' = <<>>
        /\ IF onCandleUpdate[c]
           THEN subscribeRealtime(c, sock[s].tf, currentCandle[c],
                                  [sock EXCEPT ![s].st = "done"])
           ELSE /\ sock' = [sock EXCEPT ![s].st = "done"]
                /\ UNCHANGED <<nSock, connTimeframe, onCandleUpdate, currentCandle,
                               candleStartTime, ws>>
        /\ UNCHANGED <<now, pgTimeframe, isLiveData, data, isLoading,
                       connectionStatus, mounted, current, epoch, loads,
                       disconnected, tradesLeft, dropsLeft>>
        /\ UNCHANGED <<chartVars, share>>

----------------------------------------------------------------------------
(* Home (app/page.tsx): the load effect, loadData and its continuations    *)

\* the cleanup of the previous run followed by a run of the load effect
\* with the given timeframe and data source, up to loadData's first await
LoadEffect(tf, live) ==
    /\ mounted
    /\ epoch < MaxEffects
    /\ epoch' = epoch + 1
    /\ disconnect(current)
    /\ emitted' = <<>>
    /\ IF live
       THEN /\ current' = epoch + 1
            /\ loads' = loads \cup {[tf |-> tf, epoch |-> epoch + 1, at |-> now]}
            /\ isLoading' = TRUE
            /\ connectionStatus' = "connecting"
            /\ data' = data
       ELSE /\ \E m \in MockResults(tf, now) : data' = m
            /\ isLoading' = FALSE
            /\ connectionStatus' = "connected"
            /\ UNCHANGED <<current, loads>>
    /\ UNCHANGED <<now, mounted, onCandleUpdate, currentCandle, connTimeframe,
                   candleStartTime, nSock, tradesLeft, dropsLeft>>
    /\ UNCHANGED chartVars
    /\ share' = IF live THEN share
                ELSE [share EXCEPT !.data = [k \in Conns |-> NoShare]]

\* TimeframeSelector onChange: setTimeframe
ChangeTimeframe(tf) ==
    /\ tf # pgTimeframe
    /\ pgTimeframe' = tf
    /\ isLiveData' = isLiveData
    /\ LoadEffect(tf, isLiveData)

\* the Live/Mock button: setIsLiveData(!isLiveData)
ToggleLive ==
    /\ isLiveData' = ~isLiveData
    /\ pgTimeframe' = pgTimeframe
    /\ LoadEffect(pgTimeframe, ~isLiveData)

\* the page is unmounted: the cleanup of the last run
Unmount ==
    /\ mounted
    /\ mounted' = FALSE
    /\ disconnect(current)
    /\ emitted' = <<>>
    /\ UNCHANGED <<now, pgTimeframe, isLiveData, data, isLoading, connectionStatus,
                   current, epoch, loads, onCandleUpdate, currentCandle,
                   connTimeframe, candleStartTime, nSock, tradesLeft, dropsLeft>>
    /\ UNCHANGED <<chartVars, share>>

\* loadData resumes after await fetchHistoricalData with the result h
FetchResolve(l, h) ==
    /\ l \in loads
    /\ loads' = loads \ {l}
    /\ emitted' = <<>>
    /\ data' = IF mounted THEN h ELSE data
    /\ subscribeRealtime(current, l.tf, LastOf(h), sock)
    /\ isLoading' = IF mounted THEN FALSE ELSE isLoading
    /\ connectionStatus' = IF mounted THEN "connected" ELSE connectionStatus
    /\ UNCHANGED <<now, pgTimeframe, isLiveData, mounted, current, epoch,
                   disconnected, tradesLeft, dropsLeft>>
    /\ UNCHANGED chartVars
    /\ share' =
          [chart |-> [share.chart EXCEPT ![current] = NoShare],
           data  |-> IF mounted
                     THEN [k \in Conns |->
                             IF k = current /\ h # <<>>
                             THEN [ts |-> LastOf(h).timestamp, kind |-> "object"]
                             ELSE NoShare]
                     ELSE [share.data EXCEPT ![current] = NoShare]]

\* loadData's catch: fetchHistoricalData threw; m is the mock history
FetchReject(l, m) ==
    /\ l \in loads
    /\ loads' = loads \ {l}
    /\ emitted' = <<>>
    /\ data' = IF mounted THEN m ELSE data
    /\ isLoading' = IF mounted THEN FALSE ELSE isLoading
    /\ connectionStatus' = IF mounted THEN "error" ELSE connectionStatus
    /\ UNCHANGED <<now, pgTimeframe, isLiveData, mounted, current, epoch, ws,
                   onCandleUpdate, currentCandle, connTimeframe, candleStartTime,
                   disconnected, nSock, sock, tradesLeft, dropsLeft>>
    /\ UNCHANGED chartVars
    /\ share' = IF mounted
                THEN [share EXCEPT !.data = [k \in Conns |-> NoShare]]
                ELSE share

\* step milliseconds pass
Tick(step) ==
    /\ now + step <= StartTime + MaxSteps * step
    /\ now' = now + step
    /\ emitted' = <<>>
    /\ UNCHANGED <<pgTimeframe, isLiveData, data, isLoading, connectionStatus,
                   mounted, current, epoch, loads, ws, onCandleUpdate,
                   currentCandle, connTimeframe, candleStartTime, disconnected,
                   nSock, sock, tradesLeft, dropsLeft>>
    /\ UNCHANGED <<chartVars, share>>

----------------------------------------------------------------------------
(* FootprintChartSimple and its footprint overlay.  Pixels are integers;   *)
(* font size and row height are kept as twentieths of a pixel.  The host   *)
(* chart is the record view = [from, to, candleWidth, px, top]: the        *)
(* visible time range, timeScale.width() / barsInView, and a linear price  *)
(* scale with px pixels per price unit and the price top at pixel 0.       *)

\* the classification with strict comparisons
isImbalance_strict(bidVol, askVol) ==
    IF bidVol > askVol * 3 THEN "bid"
    ELSE IF askVol > bidVol * 3 THEN "ask"
    ELSE "none"

\* isImbalance, "none" standing for null
isImbalance(bidVol, askVol) ==
    IF bidVol >= askVol * 3 THEN "bid"
    ELSE IF askVol >= bidVol * 3 THEN "ask"
    ELSE "none"

\* formatVolume of a volume of h halves (below a million): absNum.toFixed(0)
\* below 1000, (absNum / 1000).toFixed(1) and the suffix k from there on
formatVolume(h) ==
    IF h >= 2000
    THEN [digits |-> (h + 100) \div 200, suffix |-> "k"]
    ELSE [digits |-> MathRound(h), suffix |-> ""]

\* Math.min(Math.max(candleWidth * 0.15, 7), 14), in twentieths
fontSize(candleWidth) == Min(Max(3 * candleWidth, 140), 280)

\* Math.max(fontSize + 4, 10), in twentieths
rowHeight(candleWidth) == Max(fontSize(candleWidth) + 80, 200)

\* candleSeries.priceToCoordinate(price)
priceToCoordinate(v, price) == (v.top - price) * v.px

\* Math.abs(candleBottom - candleTop)
fullCandleHeight(c, v) ==
    LET candleTop    == priceToCoordinate(v, c.high)
        candleBottom == priceToCoordinate(v, c.low)
    IN  Max(candleBottom - candleTop, candleTop - candleBottom)

RECURSIVE SortByPriceDesc(_)
\* Array.prototype.sort((a, b) => b.price - a.price), which is stable
SortByPriceDesc(s) ==
    IF s = <<>> THEN <<>>
    ELSE LET rest == SortByPriceDesc(SubSeq(s, 1, Len(s) - 1))
             l    == s[Len(s)]
             k    == Cardinality({i \in 1..Len(rest) : rest[i].price >= l.price})
         IN  SubSeq(rest, 1, k) \o <<l>> \o SubSeq(rest, k + 1, Len(rest))

\* .filter(level => level.price >= candle.low && level.price <= candle.high)
InRange(c) ==
    SelectSeq(c.bidAskData, LAMBDA l : l.price >= c.low /\ l.price <= c.high)

\* the level selection without its sort
sortedLevels_unsorted(c) == InRange(c)

\* [...candle.bidAskData].filter(...).sort(...)
sortedLevels(c) == SortByPriceDesc(InRange(c))

\* Math.floor(fullCandleHeight / rowHeight)
maxLevels(height, candleWidth) == (height * 20) \div rowHeight(candleWidth)

\* sortedLevels.slice(i, i + bucketSize), i counted from 0
Bucket(levels, i, bucketSize) ==
    SubSeq(levels, i + 1, Min(i + bucketSize, Len(levels)))

RECURSIVE SumField(_, _)
\* bucket.reduce((sum, level) => sum + level[f], 0)
SumField(levels, f) ==
    IF levels = <<>> THEN 0 ELSE levels[1][f] + SumField(Tail(levels), f)

\* the entry of a bucket under the price of its first level
Aggregate_firstPrice(bucket) ==
    Level(bucket[1].price,
          SumField(bucket, "bidVol"), SumField(bucket, "askVol"))

\* the entry pushed for one bucket
Aggregate(bucket) ==
    Level(bucket[(Len(bucket) \div 2) + 1].price,
          SumField(bucket, "bidVol"), SumField(bucket, "askVol"))

\* the aggregation with every bucket one level short
levelsToShow_shortBucket(levels, maxL) ==
    IF Len(levels) > maxL /\ maxL > 0
    THEN LET bucketSize == CeilDiv(Len(levels), maxL)
         IN  [k \in 1..CeilDiv(Len(levels), bucketSize) |->
                Aggregate(Bucket(levels, (k - 1) * bucketSize,
                                 Max(bucketSize - 1, 1)))]
    ELSE levels

\* levelsToShow: the levels aggregated into buckets when more of them are
\* in range than rows fit, the levels themselves otherwise
levelsToShow(levels, maxL) ==
    IF Len(levels) > maxL /\ maxL > 0
    THEN LET bucketSize == CeilDiv(Len(levels), maxL)
         IN  [k \in 1..CeilDiv(Len(levels), bucketSize) |->
                Aggregate(Bucket(levels, (k - 1) * bucketSize, bucketSize))]
    ELSE levels

\* the primitives of one row: the two labels, the highlighted side and the
\* separator; level is the entry of levelsToShow the row is drawn from
Row(c, level, v) ==
    [time      |-> c.timestamp,
     y         |-> priceToCoordinate(v, level.price),
     level     |-> level,
     bidText   |-> formatVolume(level.bidVol),
     askText   |-> formatVolume(level.askVol),
     highlight |-> isImbalance(level.bidVol, level.askVol),
     font      |-> fontSize(v.candleWidth),
     separator |-> v.candleWidth > 80]

\* the rows levelsToShow.forEach draws for candle c
RowsToDraw(c, v) ==
    LET candleTop    == priceToCoordinate(v, c.high)
        candleBottom == priceToCoordinate(v, c.low)
        shown == levelsToShow(sortedLevels(c),
                              maxLevels(fullCandleHeight(c, v), v.candleWidth))
        drawn(level) ==
            LET y == priceToCoordinate(v, level.price)
            IN  y # 0 /\ ~(y < candleTop - 5 \/ y > candleBottom + 5)
    IN  SelectSeq(shown, drawn)

\* the body of visibleCandles.forEach for candle c
DrawCandle(c, v) ==
    IF priceToCoordinate(v, c.high) = 0 \/ priceToCoordinate(v, c.low) = 0
    THEN <<>>
    ELSE IF v.candleWidth < 15 THEN <<>>
    ELSE IF c.bidAskData = <<>> THEN <<>>
    ELSE LET rows == RowsToDraw(c, v)
         IN  [i \in 1..Len(rows) |-> Row(c, rows[i], v)]

RECURSIVE DrawAll(_, _)
DrawAll(candles, v) ==
    IF candles = <<>> THEN <<>>
    ELSE DrawCandle(candles[1], v) \o DrawAll(Tail(candles), v)

\* data.filter(candle => time >= visibleRange.from && time <= visibleRange.to)
visibleCandles(d, v) ==
    SelectSeq(d, LAMBDA c : c.timestamp >= v.from /\ c.timestamp <= v.to)

\* the report with the index of the last visible candle as its end
VisibleReport_inclusive(d, vis, v) ==
    LET startIndex == FindIndex(d, vis[1].timestamp) - 1
        endIndex   == FindIndex(d, vis[Len(vis)].timestamp) - 1
    IN  <<startIndex, endIndex, v.candleWidth, 0>>

\* the arguments of onVisibleRangeChange, indices counted from 0
VisibleReport(d, vis, v) ==
    LET startIndex == FindIndex(d, vis[1].timestamp) - 1
        endIndex   == FindIndex(d, vis[Len(vis)].timestamp) - 1
    IN  <<startIndex, endIndex + 1, v.candleWidth, 0>>

\* a run that draws over what the canvas holds
ClearCanvas_keep(canvas) == canvas

\* overlayCanvas.width = ..., ctx.clearRect(0, 0, width, height)
ClearCanvas(canvas) == <<>>

\* the overlay before its first run
EmptyOverlay == [canvas |-> <<>>, report |-> <<>>]

\* updateOverlay() on the overlay ov, the referenced data d and the chart v
updateOverlay(ov, d, v) ==
    IF d = <<>> THEN ov
    ELSE LET cleared == ClearCanvas(ov.canvas)
             vis     == visibleCandles(d, v)
         IN  IF vis = <<>> THEN [ov EXCEPT !.canvas = cleared]
             ELSE [canvas |-> cleared \o DrawAll(vis, v),
                   report |-> VisibleReport(d, vis, v)]

\* the charts of the model: the chart as created (barSpacing 10), which a
\* resize may leave at any range and price scale, and the charts a pan or
\* zoom leads to: two bar widths, two price scales, everything or the
\* newest buckets in view
CandleWidths == {20, 100}
PixelsPerUnit == {1, 2}
TopPrice == 80
Far == StartTime + 100 * getTimeframeMs("15m")
Views ==
    [from : {0, StartTime}, to : {Far}, candleWidth : CandleWidths,
     px : PixelsPerUnit, top : {TopPrice}]
InitialView ==
    [from |-> 0, to |-> Far, candleWidth |-> 10, px |-> 1, top |-> TopPrice]

\* the charts a resize of chart v may leave: its bar width kept
Resized(v) ==
    [from : {0, StartTime}, to : {Far}, candleWidth : {v.candleWidth},
     px : PixelsPerUnit, top : {TopPrice}]

\* the page's state apart from the chart component's
pageVars ==
    <<now, pgTimeframe, isLiveData, data, isLoading, connectionStatus, mounted,
      current, epoch, loads, ws, onCandleUpdate, currentCandle, connTimeframe,
      candleStartTime, disconnected, nSock, sock, tradesLeft, dropsLeft>>

\* Array.prototype.slice(start, end) on a sequence: a negative index counts
\* from the end, and both are then confined to 0 .. length
Slice(d, start, end) ==
    LET len  == Len(d)
        from == IF start < 0 THEN Max(len + start, 0) ELSE Min(start, len)
        to   == IF end < 0 THEN Max(len + end, 0) ELSE Min(end, len)
    IN  SubSeq(d, from + 1, to)

\* visibleData of FootprintBarStatistics; visibleStartIndex is start, the
\* optional visibleEndIndex is <<>> when not passed and <<n>> otherwise
visibleData(d, start, end) ==
    LET startIdx == start
        endIdx   == IF end # <<>> /\ end[1] > 0 THEN end[1]
                    ELSE Len(d)
    IN  Slice(d, startIdx, endIdx)

\* the statistics panel before its first render
NotRendered == [start |-> 0, end |-> <<>>, rows |-> <<>>]

\* a render of FootprintBarStatistics with the page's data and the props
\* visibleStartIndex = start, visibleEndIndex = end
RenderStats(start, end) ==
    /\ mounted
    /\ ~isLoading
    /\ stats' = [start |-> start, end |-> end,
                 rows  |-> IF data = <<>> THEN <<>>
                           ELSE visibleData(data, start, end)]
    /\ emitted' = <<>>
    /\ UNCHANGED <<chartData, view, overlay, share>>
    /\ UNCHANGED pageVars

\* candleSeries.setData(chartData) sets bars at other times than the chart
\* holds
BarsChange(d, shown) ==
    {d[i].timestamp : i \in DOMAIN d} # {shown[i].timestamp : i \in DOMAIN shown}

\* the data effect of the chart component.  The host chart calls the
\* subscribed updateOverlay when its logical range changes: for bars at new
\* times that may be while it handles setData, before the reference is
\* given the new data (during), and once the reference holds them (after),
\* which fitContent on the first data makes certain; for new values of the
\* bars it holds there is no call
DataEffect(during, after) ==
    /\ mounted
    /\ data # <<>>
    /\ data # chartData \/ share.data # share.chart
    /\ ~BarsChange(data, chartData) => ~during /\ ~after
    /\ chartData = <<>> => after
    /\ chartData' = data
    /\ LET ov1 == IF during THEN updateOverlay(overlay, chartData, view)
                  ELSE overlay
       IN  overlay' = IF after THEN updateOverlay(ov1, data, view) ELSE ov1
    /\ emitted' = <<>>
    /\ UNCHANGED view
    /\ share' = [share EXCEPT !.chart = share.data]
    /\ UNCHANGED stats
    /\ UNCHANGED pageVars

\* the resize effect: chart.resize(width, height) leaves the chart as v, bar
\* width kept; the host chart calls updateOverlay if it finds its logical
\* range changed, which a change of the height alone never does
Resize(v, notified) ==
    /\ mounted
    /\ v.candleWidth = view.candleWidth
    /\ v # view
    /\ v.from = view.from => ~notified
    /\ view' = v
    /\ overlay' = IF notified THEN updateOverlay(overlay, chartData, v)
                  ELSE overlay
    /\ emitted' = <<>>
    /\ UNCHANGED chartData
    /\ UNCHANGED <<stats, share>>
    /\ UNCHANGED pageVars

\* the host chart's visible-range-changed notification after a pan or zoom
\* that leaves the chart as v
RangeChanged(v) ==
    /\ mounted
    /\ v.px = view.px
    /\ view' = v
    /\ overlay' = updateOverlay(overlay, chartData, v)
    /\ emitted' = <<>>
    /\ UNCHANGED chartData
    /\ UNCHANGED <<stats, share>>
    /\ UNCHANGED pageVars

----------------------------------------------------------------------------
(* The system: Home mounted in live mode on the 15m timeframe, its first   *)
(* loadData awaiting the exchange                                          *)

InitWith(trades, drops) ==
    /\ now = StartTime
    /\ pgTimeframe = "15m"
    /\ isLiveData = TRUE
    /\ data = <<>>
    /\ isLoading = TRUE
    /\ connectionStatus = "connecting"
    /\ mounted = TRUE
    /\ current = 1
    /\ epoch = 1
    /\ loads = {[tf |-> "15m", epoch |-> 1, at |-> StartTime]}
    /\ ws = [c \in Conns |-> 0]
    /\ onCandleUpdate = [c \in Conns |-> FALSE]
    /\ currentCandle = [c \in Conns |-> Null]
    /\ connTimeframe = [c \in Conns |-> "15m"]
    /\ candleStartTime = [c \in Conns |-> 0]
    /\ disconnected = {}
    /\ nSock = 0
    /\ sock = [s \in Socks |-> FreeSock]
    /\ emitted = <<>>
    /\ tradesLeft = trades
    /\ dropsLeft = drops
    /\ chartData = <<>>
    /\ view = InitialView
    /\ overlay = EmptyOverlay
    /\ stats = NotRendered
    /\ share = [data |-> [c \in Conns |-> NoShare], chart |-> [c \in Conns |-> NoShare]]

Init == InitWith(PageTrades, MaxDrops)

Next ==
    \/ \E tf \in Timeframes : ChangeTimeframe(tf)
    \/ ToggleLive
    \/ Unmount
    \/ \E l \in loads : \E h \in HistResults(l.tf, l.at) : FetchResolve(l, h)
    \/ \E l \in loads : \E m \in MockResults(l.tf, now) : FetchReject(l, m)
    \/ \E s \in Socks :
         \E t \in Trades(now, sock[s].tf, FewKinds) :
            OnMessage(s, <<t>>)
    \/ \E s \in Socks : SocketDrop(s)
    \/ \E s \in Socks : OnClose(s)
    \/ \E s \in Socks : ReconnectTimer(s)
    \/ Tick(FiveMin)

Spec == Init /\ [][Next]_vars

----------------------------------------------------------------------------
(* The aggregator alone: the page stays mounted on its first timeframe,    *)
(* the first fetch succeeds, and trades, socket drops and reconnects       *)
(* follow                                                                  *)

NextAgg ==
    \/ \E l \in loads : \E h \in HistResults(l.tf, l.at) : FetchResolve(l, h)
    \/ \E s \in Socks :
         \E t \in Trades(now, sock[s].tf, TradeKinds) :
            OnMessage(s, <<t>>)
    \/ \E s \in Socks : SocketDrop(s)
    \/ \E s \in Socks : OnClose(s)
    \/ \E s \in Socks : ReconnectTimer(s)
    \/ Tick(getTimeframeMs("15m"))

InitAgg == InitWith(MaxTrades, MaxDrops)

SpecAgg == InitAgg /\ [][NextAgg]_vars

-----------------------------------------------------------------------------
(* Properties.                                                             *)

\* every candle the page holds, every connector's open candle and every
\* candle handed to the page's callback by the last handler
Candles ==
    ({data[i] : i \in DOMAIN data}
        \cup {currentCandle[c] : c \in Conns}
        \cup {emitted[i] : i \in DOMAIN emitted}) \ {Null}

MetricsFromLevels(c) ==
    /\ c.volume = MathRound(SumVolume(c.bidAskData))
    /\ c.delta = MathRound(SumDelta(c.bidAskData))

\* C1: after any sequence of trades routed into a candle by processTrades,
\* and for every candle the historical backfill produced, the candle's volume
\* is the sum over its levels of bidVol + askVol and its delta the sum of
\* bidVol - askVol, each rounded to an integer; the fields never hold
\* anything but the value recomputed from the levels.
C1_MetricsFromLevels == \A c \in Candles : MetricsFromLevels(c)

\* a backfilled candle and a candle the aggregator started are on the page,
\* and trades have been accumulated into the aggregator's open candle
C1_Witness ==
    /\ \E i \in DOMAIN data : data[i].src = "hist"
    /\ \E i \in DOMAIN data :
          /\ data[i].src = "live"
          /\ Len(data[i].bidAskData) = 2
          /\ data[i].volume > 0
          /\ \E c \in Conns : currentCandle[c] = data[i]

\* C2: CVD continuity.  In the candle sequence the backfill and the live
\* trades and rollovers after it produce, each candle's cvd is the cvd of the
\* candle before it plus its own delta, and the first candle's cvd is its
\* own delta as long as the sequence still starts at the candle the running
\* sum was seeded at 0 for (nothing has been dropped from the front yet).
C2_CvdContinuity ==
    /\ \A i \in 2..Len(data) : data[i].cvd = data[i - 1].cvd + data[i].delta
    /\ (data # <<>> /\ Len(data) < MaxCandles) => data[1].cvd = data[1].delta

-----------------------------------------------------------------------------
(* The rollover scenario: one publicTrade message carrying three trades    *)
(* stamped t, t + 1 and t + intervalMs, with t the time of arrival.        *)

RolloverMessages(t, tf, kinds) ==
    { <<Trade(t, k[1]), Trade(t + 1, k[2]), Trade(t + getTimeframeMs(tf), k[3])>> :
        k \in kinds \X kinds \X kinds }

NextRollover ==
    \/ \E l \in loads : \E h \in HistResults(l.tf, l.at) : FetchResolve(l, h)
    \/ \E s \in Socks :
         \E m \in RolloverMessages(now, sock[s].tf, FewKinds) : OnMessage(s, m)
    \/ \E s \in Socks : SocketDrop(s)
    \/ \E s \in Socks : OnClose(s)
    \/ \E s \in Socks : ReconnectTimer(s)
    \/ Tick(getTimeframeMs("15m"))

SpecRollover == Init /\ [][NextRollover]_vars

\* the outcome the rollover scenario is to have on the connector of socket s
\* fed message m: two candles received the trades, the first is on the page
\* in the state its two trades left it in, the second is the open candle
RolloverOutcome(s, m) ==
    LET c      == sock[s].conn
        tf     == connTimeframe[c]
        st0    == [cc |-> currentCandle[c], cst |-> candleStartTime[c], out |-> <<>>]
        first  == ProcessTrade(ProcessTrade(st0, m[1], tf), m[2], tf).cc
        second == currentCandle'[c]
        fedTo  == {emitted'[i] : i \in DOMAIN emitted'} \ {currentCandle[c]}
    IN  /\ Cardinality({e.timestamp : e \in fedTo}) = 2
        /\ first # Null
        /\ \E i \in DOMAIN data' : data'[i] = first
        /\ second.timestamp = BucketStart(m[3].T, tf)
        /\ second.timestamp # first.timestamp
        /\ second.open = m[3].p /\ second.high = m[3].p
        /\ second.low = m[3].p /\ second.close = m[3].p

\* C3: candle rollover.  An aggregator subscribed with a 15m interval that is
\* fed trades stamped t, t + 1 (same bucket) and t + intervalMs (next bucket)
\* produces exactly 2 candles: the first closed, its accumulated state left
\* as the first two trades made it, the second open with open, high, low and
\* close all equal to the rollover trade's price.
C3_Rollover ==
    [][\A s \in Socks : \A m \in RolloverMessages(now, sock[s].tf, FewKinds) :
          (/\ sock[s].st = "open"
           /\ connTimeframe[sock[s].conn] = "15m"
           /\ OnMessage(s, m))
              => RolloverOutcome(s, m)]_vars

-----------------------------------------------------------------------------
(* Trades against the open candle.                                         *)

\* socket s delivers the single trade t to its connector, whose open candle
\* exists
TradeOnOpenCandle(s, t) ==
    /\ sock[s].st = "open"
    /\ currentCandle[sock[s].conn] # Null
    /\ OnMessage(s, <<t>>)

\* C4: a trade whose timeframe bucket is earlier than the open candle's
\* openTime is a no-op: no candle changes (the open candle included), no
\* level is created and no candle event is emitted.
C4_LateTradeNoOp ==
    [][\A s \in Socks : \A t \in Trades(now, sock[s].tf, TradeKinds) :
          (/\ TradeOnOpenCandle(s, t)
           /\ BucketStart(t.T, connTimeframe[sock[s].conn])
                 < currentCandle[sock[s].conn].timestamp)
              => /\ currentCandle' = currentCandle
                 /\ data' = data
                 /\ emitted' = <<>>]_vars

\* C5: reconnection and resume.  A connector was handed its last known
\* candle by subscribeRealtime; a trade stamped in the bucket the clock is in
\* is accumulated into that candle only if the candle's openTime is that
\* bucket; otherwise the candle is finalized (emitted as it was) and a fresh
\* candle is started for the trade's bucket, its cvd carried on from the
\* finalized candle's cvd.
C5_ResumeOrRollover ==
    [][\A s \in Socks : \A t \in Trades(now, sock[s].tf, TradeKinds) :
          LET c  == sock[s].conn
              cc == currentCandle[c]
              B  == BucketStart(t.T, connTimeframe[c])
              nc == currentCandle'[c]
          IN  (/\ TradeOnOpenCandle(s, t)
               /\ B = BucketStart(now, connTimeframe[c])
               /\ cc.timestamp <= B)
                  => IF cc.timestamp = B
                     THEN nc.timestamp = cc.timestamp
                     ELSE /\ nc.timestamp = B
                          /\ nc.cvd - nc.delta = cc.cvd
                          /\ emitted'[1] = cc]_vars

\* some message was handled: trades were processed
TradeStep == tradesLeft' # tradesLeft

\* the Sequence entry i is not in the Sequence after the step
Gone(i) == \A j \in DOMAIN data' : data'[j] # data[i]

\* entry i left the Sequence as the oldest candle, shifted out by a push
ShiftedOut(i) == i = 1 /\ Len(data) = MaxCandles /\ Len(data') = MaxCandles

\* the openTimes of the connectors' open candles before and after the step
OpenTimes ==
    {currentCandle[c].timestamp : c \in Conns}
        \cup {currentCandle'[c].timestamp : c \in Conns}

\* C10 as stated: no later trade changes a backfilled candle; only candles
\* the aggregator created at a rollover are mutated in place.
C10_BackfilledNeverChanged ==
    [][TradeStep =>
          \A i \in DOMAIN data :
             data[i].src = "hist" => (~Gone(i) \/ ShiftedOut(i))]_vars

\* C10: candles created by the historical backfill are not changed by later
\* trades, except a candle whose openTime is that of a connector's open
\* candle: the last backfilled candle is handed to subscribeRealtime,
\* resumed as the open candle and mutated in place by the trades that
\* follow, until a rollover; every other backfilled candle stays as the
\* backfill made it until it is shifted out as the oldest.
C10_OnlyOpenBucketChanged ==
    [][TradeStep =>
          \A i \in DOMAIN data :
             (data[i].src = "hist" /\ data[i].timestamp \notin OpenTimes)
                 => (~Gone(i) \/ ShiftedOut(i))]_vars

\* trades have been accumulated into the last backfilled candle, resumed as
\* the open candle, while the backfilled candle before it is as it was made
C10_Witness ==
    /\ Len(data) >= 2
    /\ data[1].src = "hist" /\ data[2].src = "hist"
    /\ data[1].volume = data[2].volume - 1
    /\ \E c \in Conns : currentCandle[c] = data[2]
    /\ emitted # <<>>

-----------------------------------------------------------------------------
(* The page's update handler on its own: after a load, the callback handed *)
(* to subscribeRealtime is invoked with any candle a connector can emit,   *)
(* whatever its bucket.                                                    *)

\* the callback of the load, invoked with candle c
CandleUpdate(c) ==
    /\ mounted
    /\ \E k \in Conns : onCandleUpdate[k]
    /\ data' = OnUpdate(data, c)
    /\ emitted' = <<c>>
    /\ UNCHANGED <<now, pgTimeframe, isLiveData, isLoading, connectionStatus,
                   mounted, current, epoch, loads, ws, onCandleUpdate,
                   currentCandle, connTimeframe, candleStartTime, disconnected,
                   nSock, sock, tradesLeft, dropsLeft>>
    /\ UNCHANGED chartVars
    /\ share' = [share EXCEPT !.data =
                    Prune([k \in Conns |-> IF @[k].ts = c.timestamp
                                           THEN NoShare ELSE @[k]], data')]

\* the bucket starts around the start time: the backfilled ones and those
\* the clock reaches
Buckets(tf) ==
    {StartTime + j * getTimeframeMs(tf) : j \in (0 - HistLimit)..MaxSteps}

\* a candle as the aggregator emits it for bucket B after one trade of kind k
LiveCandle(B, k) == ApplyTrade(StartCandle(Null, B, k.p), Trade(B, k))

EmittedCandles(tf) == {LiveCandle(B, k) : B \in Buckets(tf), k \in FewKinds}

NextSeq ==
    \/ \E l \in loads : \E h \in HistResults(l.tf, l.at) : FetchResolve(l, h)
    \/ \E c \in EmittedCandles(pgTimeframe) : CandleUpdate(c)

SpecSeq == Init /\ [][NextSeq]_vars

\* C8: after any sequence of candle updates applied by the page's update
\* handler the Sequence is sorted ascending by openTime and no two of its
\* candles share an openTime.
C8_SortedUnique ==
    \A i \in 1..(Len(data) - 1) : data[i].timestamp < data[i + 1].timestamp

\* an update for a bucket older than a backfilled candle's was inserted
\* before it
C8_Witness ==
    \E i \in 1..(Len(data) - 1) :
        /\ data[i].src = "live"
        /\ emitted = <<data[i]>>
        /\ data[i + 1].src = "hist"

\* a push onto the full Sequence: exactly its oldest candle goes, the
\* others and the new candle stay
OldestDropped(c) ==
    (/\ CandleUpdate(c)
     /\ Len(data) = MaxCandles
     /\ FindIndex(data, c.timestamp) = 0)
        => /\ \A i \in 2..Len(data) : data[1].timestamp < data[i].timestamp
           /\ {data'[i] : i \in DOMAIN data'}
                 = ({data[i] : i \in DOMAIN data} \ {data[1]}) \cup {c}

-----------------------------------------------------------------------------
(* Teardown.                                                               *)

\* C6: reconnect attempts are cancellable on teardown.  Once disconnect()
\* has been called on a connector, the reconnect timer its close handler
\* scheduled opens no new connection (so that the candle-update callback is
\* never invoked by that connector again).
C6_ReconnectCancelled ==
    [][\A s \in Socks :
          (/\ sock[s].st = "timer"
           /\ sock[s].conn \in disconnected
           /\ ReconnectTimer(s))
              => /\ nSock' = nSock
                 /\ \A r \in Socks : sock'[r].st # "open" \/ sock[r].st = "open"]_vars

\* the load a fetch belongs to was torn down: the effect has run again
\* since, or the page is unmounted
Stale(l) == l.epoch < epoch \/ ~mounted

\* C7: a historical backfill fetch started before a teardown (timeframe
\* change, live/mock toggle or unmount) whose result arrives after it is
\* discarded: it neither replaces the displayed Sequence nor starts a
\* real-time subscription.
C7_StaleFetchDiscarded ==
    [][\A l \in loads : \A h \in HistResults(l.tf, l.at) :
          (Stale(l) /\ FetchResolve(l, h))
              => /\ data' = data
                 /\ nSock' = nSock
                 /\ onCandleUpdate' = onCandleUpdate]_vars

-----------------------------------------------------------------------------
(* Notifications.                                                          *)

\* C11: candleUpdated fires once per trade.  For every trade delivered to
\* the aggregator the candle-update notification is emitted exactly once,
\* carrying the open candle's state after that trade (the notification of a
\* candle finalized by the trade, carrying the candle as it was, not
\* counted).
C11_OncePerTrade ==
    [][\A s \in Socks : \A t \in Trades(now, sock[s].tf, TradeKinds) :
          LET c == sock[s].conn
          IN  (sock[s].st = "open" /\ OnMessage(s, <<t>>))
                  => \/ emitted' = <<currentCandle'[c]>>
                     \/ emitted' = <<currentCandle[c], currentCandle'[c]>>]_vars

-----------------------------------------------------------------------------
(* Malformed trades: the side field is neither "Buy" nor "Sell".           *)

MalformedKinds == {[p |-> 40, v |-> 1, S |-> "?"]}

NextMalformed ==
    \/ \E l \in loads : \E h \in HistResults(l.tf, l.at) : FetchResolve(l, h)
    \/ \E s \in Socks :
         \E t \in Trades(now, sock[s].tf, FewKinds \cup MalformedKinds) :
            OnMessage(s, <<t>>)
    \/ \E s \in Socks : SocketDrop(s)
    \/ \E s \in Socks : OnClose(s)
    \/ \E s \in Socks : ReconnectTimer(s)
    \/ Tick(getTimeframeMs("15m"))

SpecMalformed == InitAgg /\ [][NextMalformed]_vars

\* C12: a malformed trade is dropped: it leaves the open candle's OHLC,
\* levels, delta, volume and cvd unchanged (and with them the Sequence), so
\* that later well-formed trades are aggregated as if it had not arrived.
C12_MalformedDropped ==
    [][\A s \in Socks : \A t \in Trades(now, sock[s].tf, MalformedKinds) :
          (sock[s].st = "open" /\ OnMessage(s, <<t>>))
              => /\ currentCandle' = currentCandle
                 /\ data' = data
                 /\ emitted' = <<>>]_vars

-----------------------------------------------------------------------------
(* Transport errors.                                                       *)

\* the load l is served by the fallback: mock data shown, the error
\* reported, loading over
FetchFailureHandled(l, m) ==
    (FetchReject(l, m) /\ ~Stale(l))
        => /\ data' = m
           /\ connectionStatus' = "error"
           /\ isLoading' = FALSE

\* the close event of the page's live socket (not closed by disconnect())
\* makes the page fall back and report
SocketFailureHandled(s) ==
    (/\ OnClose(s)
     /\ mounted
     /\ sock[s].conn = current
     /\ current \notin disconnected)
        => /\ connectionStatus' # "connected"
           /\ data' # <<>>
           /\ \A i \in DOMAIN data' : data'[i].src = "mock"

\* C13: on every transport error, whether the historical fetch fails or the
\* trade socket closes, the page falls back to mock candle data and the
\* connection status leaves "connected" to report the error; the page is
\* not left loading.
C13_TransportErrorFallback ==
    [][/\ \A l \in loads : \A m \in MockResults(l.tf, now) :
             FetchFailureHandled(l, m)
       /\ \A s \in Socks : SocketFailureHandled(s)]_vars

-----------------------------------------------------------------------------
(* Backfill.                                                               *)

\* |a - b|
Dist(a, b) == IF a >= b THEN a - b ELSE b - a

\* the levels of a backfilled candle add up to the bar's volume, each of the
\* two Math.round of a level allowed to be off by a half (all in halves)
VolumeConserved(c) ==
    Dist(SumVolume(c.bidAskData), Bar.volume) <= 2 * Len(c.bidAskData)

\* C14: the historical backfill conserves volume: for each OHLCV bar the sum
\* over the generated levels of bidVol + askVol equals the bar's volume,
\* within rounding.
C14_BackfillConservesVolume ==
    [][\A l \in loads : \A h \in HistResults(l.tf, l.at) :
          FetchResolve(l, h)
              => \A i \in DOMAIN h : VolumeConserved(h[i])]_vars

----------------------------------------------------------------------------
(* The footprint overlay, checked on the chart component over one load:    *)
(* the backfill, trade messages that build candles of one, three and four  *)
(* levels, and the chart's data effect, resizes and range notifications.   *)

Kind(p, v, S) == [p |-> p, v |-> v, S |-> S]

\* the trades of one message, as kinds: one level; three levels; four
\* levels booked out of price order
FootprintKinds ==
    { <<Kind(50, 3, "Buy"), Kind(50, 1, "Sell")>>,
      <<Kind(50, 1, "Buy"), Kind(60, 1, "Sell"), Kind(40, 2, "Buy")>>,
      <<Kind(50, 3, "Buy"), Kind(40, 2, "Sell"), Kind(70, 1, "Buy"),
        Kind(60, 3, "Sell"), Kind(60, 1, "Buy"), Kind(50, 1, "Sell")>> }

\* the messages delivered at local time t: all trades of a message in the
\* current bucket or all in the next one
FootprintMessages(t, tf) ==
    { [i \in 1..Len(ks) |-> Trade(tt, ks[i])] :
        ks \in FootprintKinds, tt \in {t, t + getTimeframeMs(tf)} }

NextOverlay ==
    \/ \E l \in loads : \E h \in HistResults(l.tf, l.at) : FetchResolve(l, h)
    \/ \E s \in Socks : \E m \in FootprintMessages(now, sock[s].tf) :
          OnMessage(s, m)
    \/ \E during \in BOOLEAN : \E after \in BOOLEAN : DataEffect(during, after)
    \/ \E v \in Resized(view) : \E notified \in BOOLEAN : Resize(v, notified)
    \/ \E v \in Views : RangeChanged(v)

InitOverlay == InitWith(PageTrades, 0)

SpecOverlay == InitOverlay /\ [][NextOverlay]_vars

\* the levels of the rows the canvas holds for the candle opened at ts
RowsOf(canvas, ts) ==
    LET rows == SelectSeq(canvas, LAMBDA r : r.time = ts)
    IN  [j \in 1..Len(rows) |-> rows[j].level]

\* candle c of the referenced data gets footprint rows in a run on chart v
Footprinted(c, v) ==
    /\ c.timestamp >= v.from /\ c.timestamp <= v.to
    /\ v.candleWidth >= 15
    /\ c.bidAskData # <<>>

\* this step is a notification run of the overlay on the chart it leaves
OverlayRun == RangeChanged(view')

\* the rows that fit candle c on chart v
MaxRows(c, v) == maxLevels(fullCandleHeight(c, v), v.candleWidth)

\* rows are the in-range levels of c, each once and unmodified, by
\* descending price
Verbatim(rows, c) ==
    /\ Len(rows) = Len(InRange(c))
    /\ {rows[j] : j \in DOMAIN rows} = {InRange(c)[j] : j \in DOMAIN InRange(c)}
    /\ \A j \in 1..(Len(rows) - 1) : rows[j].price > rows[j + 1].price

\* C15: whenever the number of levels N of a candle is at most maxRows, the
\* rows a run of the overlay draws for it are exactly the N levels in
\* descending price order, each with its own price and its unmodified bid
\* and ask volumes.
C15_SmallInputVerbatim ==
    [][OverlayRun =>
          \A i \in DOMAIN chartData :
              LET c == chartData[i]
              IN  (Footprinted(c, view') /\ Len(InRange(c)) <= MaxRows(c, view'))
                      => Verbatim(RowsOf(overlay'.canvas, c.timestamp), c)]_vars

\* a candle whose three or more levels were booked out of price order is on
\* the canvas with one row per level
C15_Witness ==
    \E i \in DOMAIN chartData :
        LET c == chartData[i]
        IN  /\ Footprinted(c, view)
            /\ Len(c.bidAskData) >= 3
            /\ \E j \in 1..(Len(c.bidAskData) - 1) :
                  c.bidAskData[j].price < c.bidAskData[j + 1].price
            /\ Len(InRange(c)) <= MaxRows(c, view)
            /\ Len(RowsOf(overlay.canvas, c.timestamp)) = Len(c.bidAskData)
            /\ \A r \in {overlay.canvas[j] : j \in DOMAIN overlay.canvas} :
                  r.font = fontSize(view.candleWidth)

\* C16: for every candle whose N levels exceed maxRows, 0 < maxRows < N, the
\* aggregated bid volumes of the rows a run draws for it add up to the bid
\* volumes of its levels, and likewise the ask volumes.
C16_BucketsConserveVolume ==
    [][OverlayRun =>
          \A i \in DOMAIN chartData :
              LET c    == chartData[i]
                  rows == RowsOf(overlay'.canvas, c.timestamp)
              IN  (Footprinted(c, view') /\ 0 < MaxRows(c, view')
                                     /\ MaxRows(c, view') < Len(InRange(c)))
                      => /\ SumField(rows, "bidVol") = SumField(InRange(c), "bidVol")
                         /\ SumField(rows, "askVol") = SumField(InRange(c), "askVol")]_vars

\* a candle of three levels is on the canvas as two rows, one aggregating
\* two levels and one holding the third
C16_Witness ==
    \E i \in DOMAIN chartData :
        LET c    == chartData[i]
            rows == RowsOf(overlay.canvas, c.timestamp)
        IN  /\ Footprinted(c, view)
            /\ Len(InRange(c)) = 3
            /\ MaxRows(c, view) = 2
            /\ Len(rows) = 2
            /\ rows[2] \in {c.bidAskData[j] : j \in DOMAIN c.bidAskData}
            /\ rows[1] \notin {c.bidAskData[j] : j \in DOMAIN c.bidAskData}
            /\ SumField(rows, "bidVol") + SumField(rows, "askVol")
                  = SumVolume(c.bidAskData)

\* C17: when maxRows <= 0 for a candle (its pixel height is smaller than one
\* row) a run of the overlay draws no footprint row for it: no label, no
\* highlight, no separator.
C17_UnderflowDrawsNothing ==
    [][OverlayRun =>
          \A i \in DOMAIN chartData :
              LET c == chartData[i]
              IN  (Footprinted(c, view') /\ MaxRows(c, view') <= 0)
                      => RowsOf(overlay'.canvas, c.timestamp) = <<>>]_vars

\* the classification the contract states for a level
Classified(bidVol, askVol) ==
    IF bidVol >= 3 * askVol THEN "bid"
    ELSE IF askVol >= 3 * bidVol THEN "ask"
    ELSE "none"

\* C18: the imbalance of a row is a function of its bid and ask volume
\* alone: bid if bidVol >= 3 * askVol, otherwise ask if askVol >= 3 * bidVol,
\* otherwise none; isImbalance(30, 10) = bid, isImbalance(10, 30) = ask,
\* isImbalance(10, 10) = none and isImbalance(29, 10) = none.
C18_ImbalanceClassification ==
    /\ \A j \in DOMAIN overlay.canvas :
          LET r == overlay.canvas[j]
          IN  r.highlight = Classified(r.level.bidVol, r.level.askVol)
    /\ isImbalance(30, 10) = "bid"
    /\ isImbalance(10, 30) = "ask"
    /\ isImbalance(10, 10) = "none"
    /\ isImbalance(29, 10) = "none"

\* the canvas holds a row of each class, the bid one exactly at three times
\* the ask volume
C18_Witness ==
    /\ \E j \in DOMAIN overlay.canvas :
          LET r == overlay.canvas[j]
          IN  /\ r.highlight = "bid"
              /\ r.level.askVol > 0
              /\ r.level.bidVol = 3 * r.level.askVol
    /\ \E j \in DOMAIN overlay.canvas : overlay.canvas[j].highlight = "ask"
    /\ \E j \in DOMAIN overlay.canvas : overlay.canvas[j].highlight = "none"

\* the overlay and the report of a run on the chart's Sequence and chart
Current(ov, d, v) == updateOverlay(ov, d, v)

\* C19: the overlay is re-run after every data change (an in-place update of
\* the last candle included), every container resize and every
\* visible-range-changed notification: after any such event the drawn
\* overlay and the visible-range report are those of the current Sequence.
C19_RerunOnEveryChange ==
    [][(\/ \E during \in BOOLEAN : \E after \in BOOLEAN : DataEffect(during, after)
        \/ \E v \in Resized(view) : \E notified \in BOOLEAN : Resize(v, notified)
        \/ \E v \in Views : RangeChanged(v))
          => overlay' = Current(overlay, chartData', view')]_vars

\* C20: a run of the overlay renderer followed by a second run with the same
\* Sequence, the same visible ranges and the same coordinate functions
\* leaves the same draw primitives and the same visible-range report, and a
\* run leaves the Sequence's candles and levels as they were.
C20_IdempotentRendering ==
    [][OverlayRun =>
          /\ updateOverlay(overlay', chartData', view') = overlay'
          /\ chartData' = chartData
          /\ data' = data]_vars

\* the canvas holds the rows of two candles, aggregated ones among them,
\* with the report of the run that drew them
C20_Witness ==
    /\ overlay = updateOverlay(overlay, chartData, view)
    /\ overlay.report = <<0, Len(chartData), view.candleWidth, 0>>
    /\ \E j, k \in DOMAIN overlay.canvas :
          /\ overlay.canvas[j].time # overlay.canvas[k].time
          /\ \A i \in DOMAIN chartData :
                \A n \in DOMAIN chartData[i].bidAskData :
                    overlay.canvas[j].level # chartData[i].bidAskData[n]

----------------------------------------------------------------------------
(* The statistics panel, checked as a function of its props over the       *)
(* Sequences a backfill gives the page.                                    *)

\* the indices a caller may pass: from below 0 to beyond the Sequence
StartIndices == (0 - 1)..(HistLimit + 1)
EndIndices == {<<>>} \cup {<<n>> : n \in (0 - 1)..(HistLimit + 1)}

NextStats ==
    \/ \E l \in loads : \E h \in HistResults(l.tf, l.at) : FetchResolve(l, h)
    \/ \E start \in StartIndices : \E end \in EndIndices : RenderStats(start, end)

SpecStats == Init /\ [][NextStats]_vars

\* n confined to 0 .. len
Clamp(n, len) == Max(0, Min(n, len))

\* the rows the contract states for the Sequence d and the given range
ClampedRows(d, start, end) ==
    LET hi == IF end = <<>> \/ end[1] <= 0 THEN Len(d) ELSE Clamp(end[1], Len(d))
    IN  SubSeq(d, Clamp(start, Len(d)) + 1, hi)

\* C21: the rows the statistics panel shows are the candles at indices
\* startIndex .. endIndexExclusive of the Sequence, both bounds clamped to
\* [0, len(sequence)] (a negative startIndex behaving as 0), an unset or
\* non-positive endIndexExclusive meaning the full length.
C21_StatsSlice ==
    [][\A start \in StartIndices : \A end \in EndIndices :
          RenderStats(start, end) => stats'.rows = ClampedRows(data, start, end)]_vars

\* the same for the indices the page can pass, which are never negative
C21_NonNegativeStart ==
    [][\A start \in StartIndices : \A end \in EndIndices :
          (start >= 0 /\ RenderStats(start, end))
              => stats'.rows = ClampedRows(data, start, end)]_vars

\* C22: on a trade whose bucket is bucketStart, if the connector has no open
\* candle or bucketStart is greater than the open candle's openTime, the
\* open candle (if any) is emitted as finalized and a new candle with
\* openTime = bucketStart, open = high = low = close = the trade's price and
\* no levels is created, to which the trade is then applied; so the first
\* trade after a subscription without a last candle produces a candle.
C22_BucketResolution ==
    [][\A s \in Socks : \A t \in Trades(now, sock[s].tf, TradeKinds) :
          LET c  == sock[s].conn
              cc == currentCandle[c]
              B  == BucketStart(t.T, connTimeframe[c])
              nc == ApplyTrade(StartCandle(cc, B, t.p), t)
          IN  (/\ sock[s].st = "open"
               /\ OnMessage(s, <<t>>)
               /\ cc = Null \/ B > cc.timestamp)
                  => /\ currentCandle'[c] = nc
                     /\ emitted' = IF cc = Null THEN <<nc>> ELSE <<cc, nc>>]_vars

\* the levels a trade of connector c is applied to: none at a rollover
LevelsBefore(c, t) ==
    IF NeedsNewCandle(BucketStart(t.T, connTimeframe[c]), candleStartTime[c])
    THEN <<>>
    ELSE currentCandle[c].bidAskData

\* the volume booked at price p on the given side of the levels
Booked(levels, p, side) ==
    LET at == SelectSeq(levels, LAMBDA l : l.price = p)
    IN  IF side = "Buy" THEN SumField(at, "bidVol") ELSE SumField(at, "askVol")

\* C23: each trade routed into the open candle adds exactly its volume to
\* bidVol (Buy) or askVol (Sell) of the single level whose price is the trade
\* price rounded to the tick size, creating the level if absent; every other
\* level is unchanged and the level prices of the candle stay unique.
C23_LevelAccounting ==
    [][\A s \in Socks : \A t \in Trades(now, sock[s].tf, TradeKinds) :
          LET c      == sock[s].conn
              before == LevelsBefore(c, t)
              after  == currentCandle'[c].bidAskData
              p      == RoundToTick(t.p)
              other  == IF t.S = "Buy" THEN "Sell" ELSE "Buy"
          IN  (sock[s].st = "open" /\ OnMessage(s, <<t>>) /\ emitted' # <<>>)
                  => /\ Booked(after, p, t.S) = Booked(before, p, t.S) + t.v
                     /\ Booked(after, p, other) = Booked(before, p, other)
                     /\ Len(SelectSeq(after, LAMBDA l : l.price = p)) = 1
                     /\ SelectSeq(after, LAMBDA l : l.price # p)
                            = SelectSeq(before, LAMBDA l : l.price # p)
                     /\ \A i, j \in DOMAIN after :
                            after[i].price = after[j].price => i = j]_vars

\* a trade was added to a level the open candle already had, next to
\* another level
C23_Witness ==
    \E c \in Conns :
        /\ emitted = <<currentCandle[c]>>
        /\ Len(currentCandle[c].bidAskData) >= 2
        /\ \E i \in DOMAIN currentCandle[c].bidAskData :
              LET l == currentCandle[c].bidAskData[i]
              IN  l.bidVol > 0 /\ l.askVol > 0 /\ l.price = 50
        /\ currentCandle[c].close = 45

----------------------------------------------------------------------------
(* Snapshots held by the consumers while the aggregator goes on: one load, *)
(* single trades, the chart's data effect and range notifications.         *)

NextSnapshot ==
    \/ \E l \in loads : \E h \in HistResults(l.tf, l.at) : FetchResolve(l, h)
    \/ \E s \in Socks : \E t \in Trades(now, sock[s].tf, FewKinds) :
          OnMessage(s, <<t>>)
    \/ \E during \in BOOLEAN : \E after \in BOOLEAN : DataEffect(during, after)
    \/ \E v \in Views : RangeChanged(v)

InitSnapshot == InitWith(MaxTrades, 0)

SpecSnapshot == InitSnapshot /\ [][NextSnapshot]_vars

\* C24: a candle snapshot delivered to the page's Sequence or to the
\* overlay's data reference is never observed torn: at every run of the
\* overlay each candle of the referenced data has volume and delta equal to
\* the sums over its own levels, so trades processed after a snapshot was
\* emitted do not change its levels.
C24_NoTornSnapshot ==
    [][OverlayRun => \A i \in DOMAIN chartData : MetricsFromLevels(chartData[i])]_vars

\* rows are the buckets of the levels in their order: contiguous groups of
\* size levels, the last one possibly shorter, each under the price of its
\* element at index floor(group length / 2) counted from 0
GroupedBy(rows, levels, size) ==
    /\ Len(rows) = CeilDiv(Len(levels), size)
    /\ \A k \in DOMAIN rows :
          LET first == (k - 1) * size + 1
              last  == Min(k * size, Len(levels))
              glen  == last - first + 1
          IN  /\ rows[k].price = levels[first + (glen \div 2)].price
              /\ rows[k].bidVol = SumField(SubSeq(levels, first, last), "bidVol")
              /\ rows[k].askVol = SumField(SubSeq(levels, first, last), "askVol")

\* C25: for a candle of N levels and 0 < maxRows < N, with bucketSize =
\* ceil(N / maxRows), the rows of a run are exactly ceil(N / bucketSize)
\* buckets formed from contiguous groups of bucketSize levels in descending
\* price order (the last group possibly shorter), each represented by the
\* price of its element at index floor(groupLength / 2); there are never
\* more buckets than maxRows.
C25_BucketCount ==
    [][OverlayRun =>
          \A i \in DOMAIN chartData :
              LET c    == chartData[i]
                  N    == Len(InRange(c))
                  rows == RowsOf(overlay'.canvas, c.timestamp)
              IN  (Footprinted(c, view') /\ 0 < MaxRows(c, view')
                                         /\ MaxRows(c, view') < N)
                      => /\ GroupedBy(rows, SortByPriceDesc(InRange(c)),
                                      CeilDiv(N, MaxRows(c, view')))
                         /\ Len(rows) <= MaxRows(c, view')]_vars

\* a candle of four levels that has room for three rows is on the canvas as
\* two buckets of two levels, under the prices of their second levels
C25_Witness ==
    \E i \in DOMAIN chartData :
        LET c    == chartData[i]
            rows == RowsOf(overlay.canvas, c.timestamp)
        IN  /\ Footprinted(c, view)
            /\ Len(InRange(c)) = 4
            /\ MaxRows(c, view) = 3
            /\ Len(rows) = 2
            /\ rows[1].price = 60
            /\ rows[2].price = 40

\* the positions, counted from 1, of the candles of d in the range of chart v
VisiblePositions(d, v) ==
    {i \in DOMAIN d : d[i].timestamp >= v.from /\ d[i].timestamp <= v.to}

\* C26: whenever the overlay reports a range, startIndex is the index in the
\* full Sequence of the first visible candle and endIndexExclusive is one
\* more than the index of the last visible candle; hence
\* 0 <= startIndex < endIndexExclusive <= len(Sequence), and for a Sequence
\* of unique ascending openTimes endIndexExclusive - startIndex is the number
\* of visible candles.
C26_VisibleRangeReport ==
    [][OverlayRun =>
          LET vis == VisiblePositions(chartData, view')
              r   == overlay'.report
          IN  vis # {} =>
                /\ \A i \in vis : r[1] + 1 <= i /\ i <= r[2]
                /\ r[1] + 1 \in vis
                /\ r[2] \in vis
                /\ 0 <= r[1] /\ r[1] < r[2] /\ r[2] <= Len(chartData)
                /\ r[2] - r[1] = Cardinality(vis)
                /\ r[3] = view'.candleWidth]_vars

\* the chart shows the newest candles of a longer Sequence and the report
\* starts after the hidden ones
C26_Witness ==
    /\ Len(chartData) >= 2
    /\ VisiblePositions(chartData, view) # {}
    /\ 1 \notin VisiblePositions(chartData, view)
    /\ overlay.report = <<Len(chartData) - Cardinality(VisiblePositions(chartData, view)),
                          Len(chartData), view.candleWidth, 0>>

----------------------------------------------------------------------------
(* The backfill alone: one load whose response is a single bar, over bars  *)
(* of one to four levels and the 41-level bar of the specification's       *)
(* scenario, with every sequence of random factors for the small bars.     *)

Ohlcv(o, h, l, c, v) ==
    [open |-> o, high |-> h, low |-> l, close |-> c, volume |-> v]

\* open 100, high 110, low 90, close 105, volume 1000
ScenarioBar == Ohlcv(2000, 2200, 1800, 2100, 2000)

\* volumes 1, 10 and 30, in halves
SmallVolumes == {2, 20, 60}

\* rising and falling bars and a bar closing where it opened; prices on the
\* grid of 0.1, highs on and off the tick grid counted from the low
SmallBars ==
    { Ohlcv(b[1], b[2], b[3], b[4], v) :
        b \in { <<40, 50, 40, 50>>, <<40, 70, 40, 60>>, <<60, 60, 40, 40>>,
                <<42, 58, 42, 42>>, <<50, 66, 40, 60>>, <<40, 40, 40, 40>> },
        v \in SmallVolumes }

\* randomFactor * 10
Factors == {8, 9, 12}

\* the draws of one bar: every sequence for a small bar; for the scenario
\* bar a constant factor, the smallest factor on the m lowest levels and
\* the largest on the others, or the two in alternation
Draws(bar) ==
    LET n == LevelCount(bar.high, bar.low)
    IN  IF n <= 4
        THEN [1..n -> Factors]
        ELSE { [j \in 1..n |-> k] : k \in Factors }
             \cup { [j \in 1..n |-> IF j <= m THEN 8 ELSE 12] : m \in {10, 20, 31} }
             \cup { [j \in 1..n |-> IF j % 2 = 1 THEN 8 ELSE 12] }

\* the kline of the bucket in progress at time at
Kline(tf, at, bar) ==
    [start |-> BucketStart(at, tf), open |-> bar.open, high |-> bar.high,
     low |-> bar.low, close |-> bar.close, volume |-> bar.volume]

BackfillResults(tf, at) ==
    UNION { { fetchHistoricalData(<<Kline(tf, at, bar)>>, <<rf>>) : rf \in Draws(bar) } :
              bar \in SmallBars \cup {ScenarioBar} }

NextBackfill ==
    \E l \in loads : \E h \in BackfillResults(l.tf, l.at) : FetchResolve(l, h)

SpecBackfill == Init /\ [][NextBackfill]_vars

\* C27: every level the historical backfill generates has a price in
\* [bar.low, bar.high], the levels are exactly one tick step apart starting
\* from bar.low, and no two levels of a bar share a price.
C27_BackfillLevelPrices ==
    \A i \in DOMAIN data :
        LET c == data[i]
            L == c.bidAskData
        IN  c.src = "hist" =>
              /\ L # <<>>
              /\ \A j \in DOMAIN L :
                    /\ L[j].price = c.low + (j - 1) * priceStep
                    /\ c.low <= L[j].price /\ L[j].price <= c.high
              /\ \A j, k \in DOMAIN L : j # k => L[j].price # L[k].price

\* a backfilled bar whose high lies between two steps of the grid counted
\* from its low: the loop stopped at the step above the high
C27_Witness ==
    \E i \in DOMAIN data :
        /\ data[i].src = "hist"
        /\ Len(data[i].bidAskData) = 3
        /\ data[i].bidAskData[3].price < data[i].high
        /\ data[i].bidAskData[3].price + priceStep > data[i].high

\* the backfilled candles of the Sequence
Backfilled == {data[i] : i \in {j \in DOMAIN data : data[j].src = "hist"}}

\* bidVol / (bidVol + askVol) of level x exceeds that of level y
BidShareAbove(x, y) ==
    x.bidVol * (y.bidVol + y.askVol) > y.bidVol * (x.bidVol + x.askVol)

\* askVol / (bidVol + askVol) of level x exceeds that of level y
AskShareAbove(x, y) ==
    x.askVol * (y.bidVol + y.askVol) > y.askVol * (x.bidVol + x.askVol)

\* C28 as stated: in a backfilled bar with close > open the bid share of a
\* level's volume is higher the lower the level's price, with close < open
\* the ask share is higher the higher the level's price, and a bullish bar
\* yields a candle whose total bid volume exceeds its total ask volume.
C28_BidShareFollowsPrice ==
    \A c \in Backfilled :
        LET L == c.bidAskData
        IN  /\ c.close > c.open =>
                 /\ \A j, k \in DOMAIN L : j < k => BidShareAbove(L[j], L[k])
                 /\ SumField(L, "bidVol") > SumField(L, "askVol")
            /\ c.close < c.open =>
                 \A j, k \in DOMAIN L : j < k => AskShareAbove(L[k], L[j])

\* the bid ratio of candle c at the price of level x, <<numerator, denominator>>
RatioAt(c, x) == bidRatio(c.open, c.high, c.low, c.close, x.price)

\* the volumes of level x are what Math.round and the minimum of 1 leave of
\* some volume split in the ratio r: a side stored as v halves stands for
\* an amount within half a unit of it, a side at the minimum for any amount
\* below one and a half
SplitIn(x, r) ==
    LET lo(v) == IF v > 2 THEN v - 1 ELSE 0
        hi(v) == v + 1
    IN  /\ lo(x.bidVol) * (r[2] - r[1]) <= hi(x.askVol) * r[1]
        /\ lo(x.askVol) * r[1] <= hi(x.bidVol) * (r[2] - r[1])

\* C28 (amended): the ratio in which a level's volume is split before
\* rounding follows the price (the bid ratio is higher the lower the price
\* when close > open, the ask ratio higher the higher the price when
\* close < open), every level's rounded volumes are a split in that ratio to
\* within the rounding, and the bar open 100, high 110, low 90, close 105,
\* volume 1000 yields more total bid volume than total ask volume.
C28_DirectionBias ==
    \A c \in Backfilled :
        LET L == c.bidAskData
        IN  /\ \A j \in DOMAIN L : SplitIn(L[j], RatioAt(c, L[j]))
            /\ \A j, k \in DOMAIN L :
                  j < k =>
                    LET lower  == RatioAt(c, L[j])
                        higher == RatioAt(c, L[k])
                    IN  /\ c.close > c.open =>
                             lower[1] * higher[2] > higher[1] * lower[2]
                        /\ c.close < c.open =>
                             (higher[2] - higher[1]) * lower[2]
                                > (lower[2] - lower[1]) * higher[2]
            /\ (/\ c.open = ScenarioBar.open /\ c.close = ScenarioBar.close
                /\ c.high = ScenarioBar.high /\ c.low = ScenarioBar.low)
                 => SumField(L, "bidVol") > SumField(L, "askVol")

\* the scenario's bar is backfilled with its 41 levels, more bid than ask in
\* total, and two of its levels whose rounded bid shares are not in the
\* order of their ratios
C28_Witness ==
    \E c \in Backfilled :
        /\ c.open = ScenarioBar.open /\ c.close = ScenarioBar.close
        /\ Len(c.bidAskData) = 41
        /\ SumField(c.bidAskData, "bidVol") > SumField(c.bidAskData, "askVol")
        /\ \E j, k \in DOMAIN c.bidAskData :
              j < k /\ BidShareAbove(c.bidAskData[k], c.bidAskData[j])

\* a socket handler processed a message in this step
MessageStep == tradesLeft' < tradesLeft

\* C29: across any interleaving of trades, socket closes and reconnects the
\* aggregator never creates a second candle for an openTime it has already
\* created or resumed a candle for: a candle it creates is later than the
\* candle it held, the openTimes of the candles it emits never decrease, and
\* no candle of the Sequence is replaced by one of the same openTime that
\* has lost accumulated volume.
C29_NoSecondCandle ==
    [][MessageStep =>
         /\ \A c \in Conns :
               (candleStartTime'[c] # candleStartTime[c] /\ currentCandle[c] # Null)
                  => currentCandle'[c].timestamp > currentCandle[c].timestamp
         /\ \A c \in Conns : \A i \in DOMAIN emitted' :
               /\ (currentCandle'[c] # currentCandle[c] /\ currentCandle[c] # Null)
                     => emitted'[i].timestamp >= currentCandle[c].timestamp
               /\ \A j \in DOMAIN emitted' :
                     i < j => emitted'[i].timestamp <= emitted'[j].timestamp
         /\ \A i \in DOMAIN data : \A j \in DOMAIN data' :
               data'[j].timestamp = data[i].timestamp
                  => SumVolume(data'[j].bidAskData) >= SumVolume(data[i].bidAskData)]_vars

\* every level of candle c is priced within the candle's range
LevelsWithinRange(c) ==
    \A j \in DOMAIN c.bidAskData :
        c.low <= c.bidAskData[j].price /\ c.bidAskData[j].price <= c.high

\* C30: every level of a candle built from live trades has a price within
\* [candle.low, candle.high], so the renderer's filter of levels to that
\* range never hides traded volume: for an unbucketed candle the bid and ask
\* volumes of the rows passed to drawing sum to the candle's volume.
C30_FilterHidesNothing ==
    [][/\ \A i \in DOMAIN data' : LevelsWithinRange(data'[i])
       /\ \A c \in Conns :
             currentCandle'[c] # Null => LevelsWithinRange(currentCandle'[c])
       /\ OverlayRun =>
            \A i \in DOMAIN chartData :
                LET c    == chartData[i]
                    rows == RowsOf(overlay'.canvas, c.timestamp)
                IN  (Footprinted(c, view') /\ Len(c.bidAskData) <= MaxRows(c, view'))
                       => MathRound(SumVolume(rows)) = c.volume]_vars

=============================================================================
